---- MODULE Spec2Model ----
(***************************************************************************)
(* A model of the resume parser: the layout segmenter, the field           *)
(* extractors and the parse_resume driver (src/resume_parser.py,           *)
(* src/main.py).                                                           *)
(*                                                                         *)
(* A Python str is a sequence of one-character strings; a regular          *)
(* expression is an operator that computes what the backtracking matcher   *)
(* of `re` computes for that pattern.                                      *)
(***************************************************************************)
EXTENDS Integers, Sequences, FiniteSets, TLC

(* ------------------------------------------------------------------ *)
(* Characters and str helpers                                          *)
(* ------------------------------------------------------------------ *)

Upper == {"A","B","C","D","E","F","G","H","I","J","K","L","M",
          "N","O","P","Q","R","S","T","U","V","W","X","Y","Z"}

Lower == {"a","b","c","d","e","f","g","h","i","j","k","l","m",
          "n","o","p","q","r","s","t","u","v","w","x","y","z"}

Digit == {"0","1","2","3","4","5","6","7","8","9"}

Letter == Upper \cup Lower

\* \w of re: letters, digits and the underscore
WordCh == Letter \cup Digit \cup {"_"}

\* \s of re, as far as it can occur in the texts
Space == {" ", "\t", "\n"}

UpperSeq == <<"A","B","C","D","E","F","G","H","I","J","K","L","M",
              "N","O","P","Q","R","S","T","U","V","W","X","Y","Z">>

LowerSeq == <<"a","b","c","d","e","f","g","h","i","j","k","l","m",
              "n","o","p","q","r","s","t","u","v","w","x","y","z">>

\* str.lower() on one character (what re.IGNORECASE compares)
LowerCh(c) ==
    IF c \in Upper
    THEN LowerSeq[CHOOSE k \in 1..26 : UpperSeq[k] = c]
    ELSE c

LowerStr(s) == [k \in 1..Len(s) |-> LowerCh(s[k])]

SetMax(S) == CHOOSE x \in S : \A y \in S : y <= x

SetMin(S) == CHOOSE x \in S : \A y \in S : x <= y

\* number of consecutive characters of s, from position i on, that are in C
RECURSIVE Run(_, _, _)
Run(s, i, C) ==
    IF i <= Len(s) /\ s[i] \in C THEN 1 + Run(s, i + 1, C) ELSE 0

\* number of consecutive characters of s, from position i on, that are not in C
RECURSIVE RunNot(_, _, _)
RunNot(s, i, C) ==
    IF i <= Len(s) /\ s[i] \notin C THEN 1 + RunNot(s, i + 1, C) ELSE 0

\* s[i:].startswith(p), positions counted from 1
HasPrefix(s, i, p) ==
    /\ i + Len(p) - 1 <= Len(s)
    /\ SubSeq(s, i, i + Len(p) - 1) = p

\* p in s (substring test)
Contains(s, p) == \E i \in 1..(Len(s) + 1) : HasPrefix(s, i, p)

\* str.strip()
Strip(s) ==
    LET keep == {k \in 1..Len(s) : s[k] \notin Space}
    IN  IF keep = {} THEN <<>> ELSE SubSeq(s, SetMin(keep), SetMax(keep))

\* str.split(sep) for a one-character separator
RECURSIVE SplitOn(_, _)
SplitOn(s, sep) ==
    LET at == {k \in 1..Len(s) : s[k] = sep}
    IN  IF at = {} THEN <<s>>
        ELSE LET k == SetMin(at)
             IN  <<SubSeq(s, 1, k - 1)>> \o SplitOn(SubSeq(s, k + 1, Len(s)), sep)

\* str.split(): the whitespace-separated tokens
RECURSIVE SplitWords(_)
SplitWords(s) ==
    LET t == Strip(s)
    IN  IF t = <<>> THEN <<>>
        ELSE LET sp == {k \in 1..Len(t) : t[k] \in Space}
             IN  IF sp = {} THEN <<t>>
                 ELSE <<SubSeq(t, 1, SetMin(sp) - 1)>>
                      \o SplitWords(SubSeq(t, SetMin(sp), Len(t)))

\* str.splitlines()
SplitLines(s) ==
    IF s = <<>> THEN <<>>
    ELSE LET parts == SplitOn(s, "\n")
         IN  IF parts[Len(parts)] = <<>>
             THEN SubSeq(parts, 1, Len(parts) - 1)
             ELSE parts

\* all sequences over S of length 0..n
SeqsUpTo(S, n) == UNION {[1..k -> S] : k \in 0..n}

(* ------------------------------------------------------------------ *)
(* State: the locals of each function, one group per function          *)
(* ------------------------------------------------------------------ *)

VARIABLES accText, accPc, matches, accIdx, accounts

accVars == <<accText, accPc, matches, accIdx, accounts>>

VARIABLES nameText, namePc, nameLines, nameIdx, nameResult

nameVars == <<nameText, namePc, nameLines, nameIdx, nameResult>>

VARIABLES sumText, sumPc, sumLines, sumIdx, summary_text, name_found,
          is_capturing, sumTrace, sumResult

sumVars == <<sumText, sumPc, sumLines, sumIdx, summary_text, name_found,
             is_capturing, sumTrace, sumResult>>

VARIABLES spans, segPc, segIdx, sections, current_title, current_content

segVars == <<spans, segPc, segIdx, sections, current_title, current_content>>

VARIABLES kwPc, skills, education_list, certifications, projects

kwVars == <<kwPc, skills, education_list, certifications, projects>>

VARIABLES workStream, workSections, workPc, workContent, workIdx,
          current_entry, collecting_responsibilities, work_experience

workVars == <<workStream, workSections, workPc, workContent, workIdx,
              current_entry, collecting_responsibilities, work_experience>>

VARIABLES pText, pSpans, pSections, pPc, pLocals, resume_data, pRaised

parseVars == <<pText, pSpans, pSections, pPc, pLocals, resume_data, pRaised>>

vars == <<accVars, nameVars, sumVars, segVars, kwVars, workVars, parseVars>>

accOthers == <<nameVars, sumVars, segVars, kwVars, workVars, parseVars>>

nameOthers == <<accVars, sumVars, segVars, kwVars, workVars, parseVars>>

sumOthers == <<accVars, nameVars, segVars, kwVars, workVars, parseVars>>

segOthers == <<accVars, nameVars, sumVars, kwVars, workVars, parseVars>>

kwOthers == <<accVars, nameVars, sumVars, segVars, workVars, parseVars>>

workOthers == <<accVars, nameVars, sumVars, segVars, kwVars, parseVars>>

parseOthers == <<accVars, nameVars, sumVars, segVars, kwVars, workVars>>

(* ------------------------------------------------------------------ *)
(* extract_accounts_from_resume                                        *)
(* ------------------------------------------------------------------ *)

\* [a-zA-Z0-9-]
DomainCh == Letter \cup Digit \cup {"-"}

\* [a-zA-Z0-9._%+-]
LocalCh == Letter \cup Digit \cup {".", "_", "%", "+", "-"}

\* [a-zA-Z0-9.-]
EmailDomainCh == Letter \cup Digit \cup {".", "-"}

NoMatch == [ok |-> FALSE]

\* ([a-zA-Z0-9-]+)\.[a-zA-Z]+(/\S*)? tried at position j, after a scheme g1
\* and a "www." g2 that began at position i: the greedy domain label backs
\* off until a dot and a letter follow it; the TLD and the path are greedy
\* and nothing follows them.
UrlTail(s, i, j, g1, g2) ==
    LET L     == Run(s, j, DomainCh)
        cands == {d \in 1..L : /\ j + d <= Len(s)
                               /\ s[j + d] = "."
                               /\ Run(s, j + d + 1, Letter) >= 1}
    IN  IF cands = {} THEN NoMatch
        ELSE LET d    == SetMax(cands)
                 t    == Run(s, j + d + 1, Letter)
                 e    == j + d + 1 + t
                 plen == IF e <= Len(s) /\ s[e] = "/"
                         THEN 1 + RunNot(s, e + 1, Space)
                         ELSE 0
             IN  [ok |-> TRUE, start |-> i, end |-> e + plen,
                  g1 |-> g1, g2 |-> g2,
                  g3 |-> SubSeq(s, j, j + d - 1),
                  g4 |-> SubSeq(s, e, e + plen - 1),
                  g5 |-> <<>>]

\* (www\.)? then the rest, the group taken first and given up on failure
UrlWww(s, i, j, g1) ==
    LET www  == <<"w","w","w",".">>
        with == IF HasPrefix(s, j, www)
                THEN UrlTail(s, i, j + Len(www), g1, www)
                ELSE NoMatch
    IN  IF with.ok THEN with ELSE UrlTail(s, i, j, g1, <<>>)

\* (https?://)? then the rest: the first alternative of the pattern at i
UrlAt(s, i) ==
    LET https == <<"h","t","t","p","s",":","/","/">>
        http  == <<"h","t","t","p",":","/","/">>
        g1    == IF HasPrefix(s, i, https) THEN https
                 ELSE IF HasPrefix(s, i, http) THEN http
                 ELSE <<>>
        with  == IF g1 # <<>> THEN UrlWww(s, i, i + Len(g1), g1) ELSE NoMatch
    IN  IF with.ok THEN with ELSE UrlWww(s, i, i, <<>>)

\* ([a-zA-Z0-9._%+-]+@[a-zA-Z0-9.-]+\.[a-zA-Z]{2,}) at i: the second alternative
EmailAt(s, i) ==
    LET L     == Run(s, i, LocalCh)
        DomOk(a, d) == /\ a + d <= Len(s)
                       /\ s[a + d] = "."
                       /\ Run(s, a + d + 1, Letter) >= 2
        locs  == {k \in 1..L : /\ i + k <= Len(s)
                               /\ s[i + k] = "@"
                               /\ \E d \in 1..Run(s, i + k + 1, EmailDomainCh) :
                                       DomOk(i + k + 1, d)}
    IN  IF locs = {} THEN NoMatch
        ELSE LET k == SetMax(locs)
                 a == i + k + 1
                 d == SetMax({x \in 1..Run(s, a, EmailDomainCh) : DomOk(a, x)})
                 e == a + d + 1 + Run(s, a + d + 1, Letter)
             IN  [ok |-> TRUE, start |-> i, end |-> e,
                  g1 |-> <<>>, g2 |-> <<>>, g3 |-> <<>>, g4 |-> <<>>,
                  g5 |-> SubSeq(s, i, e - 1)]

\* the pattern at position i: the URL alternative first, then the email one
MatchAt(s, i) ==
    LET u == UrlAt(s, i)
    IN  IF u.ok THEN u ELSE EmailAt(s, i)

\* re.findall(pattern, text): leftmost matches, each search resuming where
\* the previous match ended
RECURSIVE FindAll(_, _)
FindAll(s, i) ==
    IF i > Len(s) THEN <<>>
    ELSE LET m == MatchAt(s, i)
         IN  IF m.ok THEN <<m>> \o FindAll(s, m.end)
             ELSE FindAll(s, i + 1)

\* accounts.setdefault(key, []).append(value) on an insertion-ordered dict
SetDefaultAppend(acc, key, value) ==
    IF \E k \in 1..Len(acc) : acc[k].key = key
    THEN [k \in 1..Len(acc) |->
            IF acc[k].key = key
            THEN [acc[k] EXCEPT !.vals = Append(@, value)]
            ELSE acc[k]]
    ELSE Append(acc, [key |-> key, vals |-> <<value>>])

\* the URL half of the loop body
AccUrlBranch(acc, m) ==
    LET full_url == m.g1 \o m.g2 \o m.g3 \o m.g4
    IN  IF full_url # <<>> /\ m.g3 # <<>>
        THEN SetDefaultAppend(acc, m.g3, full_url)
        ELSE acc

\* the email half of the loop body
AccEmailBranch(acc, m) ==
    LET email == m.g5
    IN  IF email # <<>>
        THEN LET email_domain == SplitOn(SplitOn(email, "@")[2], ".")[1]
             IN  SetDefaultAppend(acc, email_domain, email)
        ELSE acc

AccInputsIdle ==
    /\ accText = <<>>
    /\ accPc = "idle"
    /\ matches = <<>>
    /\ accIdx = 0
    /\ accounts = <<>>

\* matches = re.findall(pattern, text)
AccFindAll ==
    /\ accPc = "start"
    /\ matches' = FindAll(accText, 1)
    /\ accIdx' = 1
    /\ accPc' = "loop"
    /\ UNCHANGED <<accText, accounts>>
    /\ UNCHANGED accOthers

\* one iteration of "for match in matches"
AccProcessMatch ==
    /\ accPc = "loop"
    /\ accIdx <= Len(matches)
    /\ accounts' = AccEmailBranch(AccUrlBranch(accounts, matches[accIdx]),
                                  matches[accIdx])
    /\ accIdx' = accIdx + 1
    /\ UNCHANGED <<accText, accPc, matches>>
    /\ UNCHANGED accOthers

\* return accounts
AccReturn ==
    /\ accPc = "loop"
    /\ accIdx > Len(matches)
    /\ accPc' = "done"
    /\ UNCHANGED <<accText, matches, accIdx, accounts>>
    /\ UNCHANGED accOthers

\* the texts the sweep is run on: every short text over AccAlphabet, and
\* the texts of AccExamples
MaxAccLen == 6

AccAlphabet == {"a", ".", "@", "/", " "}

AccExamples ==
    { <<"C","o","n","t","a","c","t"," ","m","e"," ","a","t"," ","j","a","n","e","@","e","x","a","m","p","l","e",".","c","o","m"," ","o","r"," ","v","i","s","i","t"," ","h","t","t","p","s",":","/","/","w","w","w",".","e","x","a","m","p","l","e",".","o","r","g">>,
      <<"h","t","t","p",":","/","/","a",".","b","/","c"," ","d">>,
      <<"w","w","w",".","e","x","a","m","p","l","e">>,
      <<"j","o","h","n",".","d","o","e","@","x",".","c","o","m">> }

AccTexts == SeqsUpTo(AccAlphabet, MaxAccLen) \cup AccExamples

(* ------------------------------------------------------------------ *)
(* Python values of more than one type                                 *)
(* ------------------------------------------------------------------ *)

PyNone == [kind |-> "None"]

PyStr(s) == [kind |-> "str", val |-> s]

PyList(l) == [kind |-> "list", val |-> l]

PyDict(d) == [kind |-> "dict", val |-> d]

\* bool(v): None, "", [] and {} are false
Truthy(v) == v.kind # "None" /\ v.val # <<>>

\* "\n".join(lines): the flat text whose lines are ls
RECURSIVE JoinLines(_)
JoinLines(ls) ==
    IF ls = <<>> THEN <<>>
    ELSE IF Len(ls) = 1 THEN ls[1]
    ELSE ls[1] \o <<"\n">> \o JoinLines(Tail(ls))

(* ------------------------------------------------------------------ *)
(* extract_name                                                        *)
(* ------------------------------------------------------------------ *)

\* [A-Z][a-z]* in place of [A-Z][a-zA-Z]*: the tail of a token lower-case only
NamePatternLowerTail(line) ==
    \E a \in 1..Len(line), b \in 1..Len(line) :
        /\ a + b + 1 <= Len(line)
        /\ line[1] \in Upper
        /\ \A k \in 2..a : line[k] \in Lower
        /\ \A k \in (a + 1)..(a + b) : line[k] \in Space
        /\ line[a + b + 1] \in Upper
        /\ \A k \in (a + b + 2)..Len(line) : line[k] \in Lower

\* name_pattern.match(line) for ^[A-Z][a-zA-Z]*\s+[A-Z][a-zA-Z]*$ : the first
\* token takes a characters, the whitespace b, the second token the rest
NamePattern(line) ==
    \E a \in 1..Len(line), b \in 1..Len(line) :
        /\ a + b + 1 <= Len(line)
        /\ line[1] \in Upper
        /\ \A k \in 2..a : line[k] \in Letter
        /\ \A k \in (a + 1)..(a + b) : line[k] \in Space
        /\ line[a + b + 1] \in Upper
        /\ \A k \in (a + b + 2)..Len(line) : line[k] \in Letter

NameInputsIdle ==
    /\ nameText = <<>>
    /\ namePc = "idle"
    /\ nameLines = <<>>
    /\ nameIdx = 0
    /\ nameResult = PyNone

\* lines = text.splitlines()
NameSplit ==
    /\ namePc = "start"
    /\ nameLines' = SplitLines(nameText)
    /\ nameIdx' = 1
    /\ namePc' = "loop"
    /\ UNCHANGED <<nameText, nameResult>>
    /\ UNCHANGED nameOthers

\* one iteration of "for line in lines": strip, match, return on a match
NameScanLine ==
    /\ namePc = "loop"
    /\ nameIdx <= Len(nameLines)
    /\ LET line == Strip(nameLines[nameIdx])
       IN  IF NamePattern(line)
           THEN /\ nameResult' = PyStr(line)
                /\ namePc' = "done"
                /\ UNCHANGED nameIdx
           ELSE /\ nameIdx' = nameIdx + 1
                /\ UNCHANGED <<nameResult, namePc>>
    /\ UNCHANGED <<nameText, nameLines>>
    /\ UNCHANGED nameOthers

\* return None
NameReturnNone ==
    /\ namePc = "loop"
    /\ nameIdx > Len(nameLines)
    /\ nameResult' = PyNone
    /\ namePc' = "done"
    /\ UNCHANGED <<nameText, nameLines, nameIdx>>
    /\ UNCHANGED nameOthers

\* extract_name as a function of the text
RECURSIVE NameScan(_, _)
NameScan(ls, k) ==
    IF k > Len(ls) THEN PyNone
    ELSE IF NamePattern(Strip(ls[k])) THEN PyStr(Strip(ls[k]))
    ELSE NameScan(ls, k + 1)

ExtractName(text) == NameScan(SplitLines(text), 1)

MaxNameLines == 3

NameLineSet ==
    { <<"J","o","h","n"," ","D","o","e">>, <<"J","O","H","N"," ","D","O","E">>, <<"S","o","f","t","w","a","r","e"," ","E","n","g","i","n","e","e","r">>, <<"j","o","h","n"," ","d","o","e">>,
      <<" "," ","J","a","n","e"," "," "," ","R","o","e"," ">>, <<"J","o","h","n"," ","Q"," ","D","o","e">>, <<"A","n","n"," ","M","c","D","o","n","a","l","d">>, <<"J","o","h","n"," ","D","o","e","2">>, <<>> }

NameTexts == {JoinLines(ls) : ls \in SeqsUpTo(NameLineSet, MaxNameLines)}

(* ------------------------------------------------------------------ *)
(* extract_summary                                                     *)
(* ------------------------------------------------------------------ *)

\* the alternatives of summary_title_pattern
SummaryTitles ==
    << <<"S","u","m","m","a","r","y">>, <<"P","r","o","f","e","s","s","i","o","n","a","l"," ","S","u","m","m","a","r","y">>, <<"C","a","r","e","e","r"," ","S","u","m","m","a","r","y">>,
       <<"E","x","e","c","u","t","i","v","e"," ","S","u","m","m","a","r","y">>, <<"S","u","m","m","a","r","y"," ","o","f"," ","Q","u","a","l","i","f","i","c","a","t","i","o","n","s">>, <<"P","r","o","f","i","l","e">>,
       <<"P","r","o","f","e","s","s","i","o","n","a","l"," ","P","r","o","f","i","l","e">>, <<"P","e","r","s","o","n","a","l"," ","P","r","o","f","i","l","e">>, <<"C","a","r","e","e","r"," ","P","r","o","f","i","l","e">>,
       <<"P","e","r","s","o","n","a","l"," ","S","u","m","m","a","r","y">>, <<"O","v","e","r","v","i","e","w">>, <<"O","b","j","e","c","t","i","v","e">>, <<"C","a","r","e","e","r"," ","O","b","j","e","c","t","i","v","e">>,
       <<"P","r","o","f","e","s","s","i","o","n","a","l"," ","O","b","j","e","c","t","i","v","e">>, <<"S","t","a","t","e","m","e","n","t">>, <<"I","n","t","r","o","d","u","c","t","i","o","n">>, <<"A","b","o","u","t"," ","M","e">> >>

\* re.match(summary_title_pattern, line, re.IGNORECASE): one of the titles,
\* then whitespace only, to the end of the line
SummaryTitlePattern(line) ==
    \E t \in 1..Len(SummaryTitles) :
        /\ HasPrefix(LowerStr(line), 1, LowerStr(SummaryTitles[t]))
        /\ \A k \in (Len(SummaryTitles[t]) + 1)..Len(line) : line[k] \in Space

\* re.match(r"^[A-Z]{4,}\b.*", s): n >= 4 capitals from the start, and a
\* word boundary after them
UppercaseTitlePattern(s) ==
    \E n \in 4..Run(s, 1, Upper) :
        n = Len(s) \/ s[n + 1] \notin WordCh

\* re.match(r"^[A-Za-z\s]+$", line)
SummaryNamePattern(line) ==
    /\ line # <<>>
    /\ \A k \in 1..Len(line) : line[k] \in Letter \cup Space

\* s.endswith('.')
EndsWithDot(s) == s # <<>> /\ s[Len(s)] = "."

\* the branch of the loop body that a line takes, in the order of the
\* if / elif chain
SummaryBranch(line, capturing, found) ==
    IF SummaryTitlePattern(line) THEN "heading"
    ELSE IF capturing
         THEN IF UppercaseTitlePattern(line) THEN "stop"
              ELSE IF Strip(line) # <<>>
                   THEN IF EndsWithDot(Strip(line)) THEN "append_stop"
                        ELSE "append"
                   ELSE "blank"
    ELSE IF SummaryNamePattern(line) /\ ~found THEN "name"
    ELSE IF found /\ ~capturing THEN "tagline"
    ELSE "none"

\* one pass of the loop body over the locals st: the new locals, and the
\* branch taken
SumStep(line, st) ==
    LET br == SummaryBranch(line, st.capturing, st.found)
    IN  [text |-> IF br \in {"append", "append_stop"}
                  THEN st.text \o Strip(line) \o <<" ">>
                  ELSE IF br = "tagline" THEN Strip(line)
                  ELSE st.text,
         capturing |-> IF br \in {"heading", "tagline"} THEN TRUE
                       ELSE st.capturing,
         found |-> IF br = "name" THEN TRUE ELSE st.found,
         br |-> br]

SumInputsIdle ==
    /\ sumText = <<>>
    /\ sumPc = "idle"
    /\ sumLines = <<>>
    /\ sumIdx = 0
    /\ summary_text = <<>>
    /\ name_found = FALSE
    /\ is_capturing = FALSE
    /\ sumTrace = <<>>
    /\ sumResult = <<>>

\* lines = text.splitlines() and the initial values of the locals
SumSplit ==
    /\ sumPc = "start"
    /\ sumLines' = SplitLines(sumText)
    /\ sumIdx' = 1
    /\ sumPc' = "loop"
    /\ UNCHANGED <<sumText, summary_text, name_found, is_capturing,
                   sumTrace, sumResult>>
    /\ UNCHANGED sumOthers

\* one iteration of "for line in lines"
SumLine ==
    /\ sumPc = "loop"
    /\ sumIdx <= Len(sumLines)
    /\ LET nx == SumStep(sumLines[sumIdx],
                          [text |-> summary_text, capturing |-> is_capturing,
                           found |-> name_found])
       IN  /\ sumTrace' = Append(sumTrace, nx.br)
           /\ is_capturing' = nx.capturing
           /\ name_found' = nx.found
           /\ summary_text' = nx.text
           /\ sumPc' = IF nx.br \in {"stop", "append_stop"} THEN "return"
                       ELSE "loop"
           /\ sumIdx' = sumIdx + 1
    /\ UNCHANGED <<sumText, sumLines, sumResult>>
    /\ UNCHANGED sumOthers

\* the loop has run out of lines
SumLoopEnd ==
    /\ sumPc = "loop"
    /\ sumIdx > Len(sumLines)
    /\ sumPc' = "return"
    /\ UNCHANGED <<sumText, sumLines, sumIdx, summary_text, name_found,
                   is_capturing, sumTrace, sumResult>>
    /\ UNCHANGED sumOthers

\* return summary_text.strip()
SumReturn ==
    /\ sumPc = "return"
    /\ sumResult' = Strip(summary_text)
    /\ sumPc' = "done"
    /\ UNCHANGED <<sumText, sumLines, sumIdx, summary_text, name_found,
                   is_capturing, sumTrace>>
    /\ UNCHANGED sumOthers

\* extract_summary as a function of the text: st holds the locals
RECURSIVE SumScan(_, _, _)
SumScan(ls, k, st) ==
    IF k > Len(ls) THEN Strip(st.text)
    ELSE LET nx == SumStep(ls[k], st)
         IN  IF nx.br \in {"stop", "append_stop"} THEN Strip(nx.text)
             ELSE SumScan(ls, k + 1,
                          [text |-> nx.text, capturing |-> nx.capturing,
                           found |-> nx.found])

ExtractSummary(text) ==
    SumScan(SplitLines(text), 1,
            [text |-> <<>>, capturing |-> FALSE, found |-> FALSE])

MaxSumLines == 4

SumLineSet ==
    { <<"J","o","h","n"," ","D","o","e">>, <<"E","n","g","i","n","e","e","r">>, <<"S","u","m","m","a","r","y">>, <<"p","r","o","f","i","l","e"," "," ">>, <<"S","K","I","L","L","S">>,
      <<"E","x","p","e","r","i","e","n","c","e","d"," ","e","n","g","i","n","e","e","r",".">>, <<"5"," ","y","e","a","r","s"," ","o","f"," ","P","y","t","h","o","n">>, <<>>, <<"N","o","t"," ","f","o","u","n","d">> }

SumTexts == {JoinLines(ls) : ls \in SeqsUpTo(SumLineSet, MaxSumLines)}

(* ------------------------------------------------------------------ *)
(* extract_sections_with_font_info: the layout segmenter               *)
(* ------------------------------------------------------------------ *)

\* {"text": ..., "font_size": ..., "font_name": ...}
Span(text, font_size, font_name) ==
    [text |-> text, font_size |-> font_size, font_name |-> font_name]

\* d[key] = d.get(key, []) + value: a repeated key has its values merged
DictSetMerge(d, key, value) ==
    IF \E k \in 1..Len(d) : d[k].title = key
    THEN [k \in 1..Len(d) |->
            IF d[k].title = key
            THEN [d[k] EXCEPT !.content = @ \o value]
            ELSE d[k]]
    ELSE Append(d, [title |-> key, content |-> value])

\* sections[key] = value on an insertion-ordered dict: a key already there
\* keeps its place and has its value replaced
DictSet(d, key, value) ==
    IF \E k \in 1..Len(d) : d[k].title = key
    THEN [k \in 1..Len(d) |->
            IF d[k].title = key
            THEN [d[k] EXCEPT !.content = value]
            ELSE d[k]]
    ELSE Append(d, [title |-> key, content |-> value])

\* current_content = [{"text": text, "font_size": ..., "font_name": ...}]
SeedContent(text, span) == <<Span(text, span.font_size, span.font_name)>>

\* the body of the innermost loop, for one span, over the locals st
SegStep(st, span) ==
    LET text == Strip(span.text)
    IN  IF UppercaseTitlePattern(text)
        THEN [sections |-> IF Truthy(st.current_title)
                           THEN DictSet(st.sections, st.current_title.val,
                                        st.current_content)
                           ELSE st.sections,
              current_title |-> PyStr(text),
              current_content |-> SeedContent(text, span)]
        ELSE IF Truthy(st.current_title)
             THEN [st EXCEPT !.current_content =
                        Append(@, Span(text, span.font_size, span.font_name))]
             ELSE st

\* the flush after the loops
SegFlush(st) ==
    IF Truthy(st.current_title)
    THEN DictSet(st.sections, st.current_title.val, st.current_content)
    ELSE st.sections

SegInputsIdle ==
    /\ spans = <<>>
    /\ segPc = "idle"
    /\ segIdx = 0
    /\ sections = <<>>
    /\ current_title = PyNone
    /\ current_content = <<>>

\* one span of the document, in the traversal order of the layout library
SegSpan ==
    /\ segPc = "loop"
    /\ segIdx <= Len(spans)
    /\ LET nx == SegStep([sections |-> sections,
                          current_title |-> current_title,
                          current_content |-> current_content],
                         spans[segIdx])
       IN  /\ sections' = nx.sections
           /\ current_title' = nx.current_title
           /\ current_content' = nx.current_content
    /\ segIdx' = segIdx + 1
    /\ UNCHANGED <<spans, segPc>>
    /\ UNCHANGED segOthers

\* the end of the document: flush the open section and return
SegReturn ==
    /\ segPc = "loop"
    /\ segIdx > Len(spans)
    /\ sections' = SegFlush([sections |-> sections,
                             current_title |-> current_title,
                             current_content |-> current_content])
    /\ segPc' = "done"
    /\ UNCHANGED <<spans, segIdx, current_title, current_content>>
    /\ UNCHANGED segOthers

\* extract_sections_with_font_info as a function of the span stream
RECURSIVE SegScan(_, _, _)
SegScan(ss, k, st) ==
    IF k > Len(ss) THEN SegFlush(st)
    ELSE SegScan(ss, k + 1, SegStep(st, ss[k]))

ExtractSections(ss) ==
    SegScan(ss, 1, [sections |-> <<>>, current_title |-> PyNone,
                    current_content |-> <<>>])

(* ------------------------------------------------------------------ *)
(* extract_skills, extract_education, extract_certifications,          *)
(* extract_projects                                                    *)
(* ------------------------------------------------------------------ *)

skill_section_keywords ==
    << <<"S","k","i","l","l","s">>, <<"T","e","c","h","n","i","c","a","l"," ","S","k","i","l","l","s">>, <<"C","o","r","e"," ","C","o","m","p","e","t","e","n","c","i","e","s">> >>

education_keywords == << <<"E","d","u","c","a","t","i","o","n">>, <<"A","c","a","d","e","m","i","c"," ","B","a","c","k","g","r","o","u","n","d">> >>

certification_section_titles ==
    << <<"C","e","r","t","i","f","i","c","a","t","i","o","n">>, <<"C","e","r","t","i","f","i","c","a","t","i","o","n","s">>, <<"L","i","c","e","n","s","e","s">> >>

project_section_titles == << <<"P","r","o","j","e","c","t","s">>, <<"P","r","o","j","e","c","t"," ","E","x","p","e","r","i","e","n","c","e">> >>

\* re.compile("(k1|k2|...)", re.IGNORECASE).search(title)
KeywordSearch(keywords, title) ==
    \E k \in 1..Len(keywords) :
        Contains(LowerStr(title), LowerStr(keywords[k]))

\* item["font_size"] <= content[0]["font_size"]: the baseline not excluded
SmallerFontOrEqual(item, content) == item.font_size <= content[1].font_size

\* item["font_size"] < content[0]["font_size"]
SmallerFont(item, content) == item.font_size < content[1].font_size

\* [item["text"] for item in content if item["font_size"] < content[0]["font_size"]]
RECURSIVE SmallerFontTexts(_, _, _)
SmallerFontTexts(content, k, acc) ==
    IF k > Len(content) THEN acc
    ELSE SmallerFontTexts(content, k + 1,
                          IF SmallerFont(content[k], content)
                          THEN Append(acc, content[k].text)
                          ELSE acc)

\* the loop over sections.items() that the four extractors share
RECURSIVE KeywordExtract(_, _, _, _)
KeywordExtract(secs, keywords, k, acc) ==
    IF k > Len(secs) THEN acc
    ELSE KeywordExtract(secs, keywords, k + 1,
                        IF KeywordSearch(keywords, secs[k].title)
                        THEN acc \o SmallerFontTexts(secs[k].content, 1, <<>>)
                        ELSE acc)

ExtractSkills(secs) == KeywordExtract(secs, skill_section_keywords, 1, <<>>)

ExtractEducation(secs) == KeywordExtract(secs, education_keywords, 1, <<>>)

ExtractCertifications(secs) ==
    KeywordExtract(secs, certification_section_titles, 1, <<>>)

ExtractProjects(secs) == KeywordExtract(secs, project_section_titles, 1, <<>>)

KwInputsIdle ==
    /\ kwPc = "idle"
    /\ skills = <<>>
    /\ education_list = <<>>
    /\ certifications = <<>>
    /\ projects = <<>>

\* skills = extract_skills(sections)
KwSkills ==
    /\ segPc = "done"
    /\ kwPc = "skills"
    /\ skills' = ExtractSkills(sections)
    /\ kwPc' = "education"
    /\ UNCHANGED <<education_list, certifications, projects>>
    /\ UNCHANGED kwOthers

\* education = extract_education(sections)
KwEducation ==
    /\ kwPc = "education"
    /\ education_list' = ExtractEducation(sections)
    /\ kwPc' = "certifications"
    /\ UNCHANGED <<skills, certifications, projects>>
    /\ UNCHANGED kwOthers

\* certifications = extract_certifications(sections)
KwCertifications ==
    /\ kwPc = "certifications"
    /\ certifications' = ExtractCertifications(sections)
    /\ kwPc' = "projects"
    /\ UNCHANGED <<skills, education_list, projects>>
    /\ UNCHANGED kwOthers

\* projects = extract_projects(sections)
KwProjects ==
    /\ kwPc = "projects"
    /\ projects' = ExtractProjects(sections)
    /\ kwPc' = "done"
    /\ UNCHANGED <<skills, education_list, certifications>>
    /\ UNCHANGED kwOthers

\* the span streams the segmenter is run on
MaxSpans == 4

SegSpanSet ==
    { Span(<<"S","K","I","L","L","S">>, 12, <<"A","r","i","a","l","-","B","o","l","d">>),
      Span(<<" ","S","K","I","L","L","S"," ">>, 14, <<"A","r","i","a","l">>),
      Span(<<"E","D","U","C","A","T","I","O","N">>, 12, <<"A","r","i","a","l","-","B","o","l","d">>),
      Span(<<"C","E","R","T","I","F","I","C","A","T","I","O","N","S"," ","&"," ","P","R","O","J","E","C","T","S">>, 12, <<"A","r","i","a","l","-","B","o","l","d">>),
      Span(<<" ","P","y","t","h","o","n">>, 9, <<"A","r","i","a","l">>),
      Span(<<"G","o">>, 14, <<"A","r","i","a","l">>) }

SegStreams == SeqsUpTo(SegSpanSet, MaxSpans)

(* ------------------------------------------------------------------ *)
(* extract_work_experience                                             *)
(* ------------------------------------------------------------------ *)

work_experience_titles ==
    << <<"W","o","r","k"," ","E","x","p","e","r","i","e","n","c","e">>, <<"P","r","o","f","e","s","s","i","o","n","a","l"," ","E","x","p","e","r","i","e","n","c","e">>, <<"E","m","p","l","o","y","m","e","n","t"," ","H","i","s","t","o","r","y">> >>

\* {'title': None, 'company': None, 'dates': None, 'responsibilities': []}
EmptyEntry ==
    [title |-> PyNone, company |-> PyNone, dates |-> PyNone,
     responsibilities |-> <<>>]

\* \b of re at the gap before position i of s (1 .. Len(s) + 1)
WordBoundary(s, i) ==
    LET before == i > 1 /\ s[i - 1] \in WordCh
        after  == i <= Len(s) /\ s[i] \in WordCh
    IN  before # after

AllDigits(s, i, n) ==
    /\ i + n - 1 <= Len(s)
    /\ \A k \in i..(i + n - 1) : s[k] \in Digit

\* re.search(r'\b(\d{2}/\d{4}|\d{4})\b', text)
DatePattern(s) ==
    \E i \in 1..Len(s) :
        /\ WordBoundary(s, i)
        /\ \/ /\ AllDigits(s, i, 2)
              /\ i + 2 <= Len(s)
              /\ s[i + 2] = "/"
              /\ AllDigits(s, i + 3, 4)
              /\ WordBoundary(s, i + 7)
           \/ /\ AllDigits(s, i, 4)
              /\ WordBoundary(s, i + 4)

\* is_bold = "Bold" in font_name
IsBold(font_name) == Contains(font_name, <<"B","o","l","d">>)

\* if is_bold and font_size >= 10
WorkIsTitle(line) == IsBold(line.font_name) /\ line.font_size >= 10

\* the rule of the if / elif chain that a span takes
WorkBranch(line, entry, collecting) ==
    LET text == Strip(line.text)
    IN  IF WorkIsTitle(line) THEN "title"
        ELSE IF /\ line.font_size >= 10
                /\ ~IsBold(line.font_name)
                /\ Truthy(entry.title)
                /\ ~Truthy(entry.company) THEN "company"
        ELSE IF DatePattern(text) \/ Contains(text, <<"P","r","e","s","e","n","t">>) THEN "dates"
        ELSE IF collecting /\ line.font_size < 10
             THEN IF Len(SplitWords(text)) > 3 THEN "responsibility"
                  ELSE "short"
        ELSE "none"

\* the body of "for i, line in enumerate(content[1:])" over the locals st
WorkStep(st, line) ==
    LET text == Strip(line.text)
        br   == WorkBranch(line, st.entry, st.collecting)
    IN  IF br = "title"
        THEN LET commit == Truthy(st.entry.title)
                 base   == IF commit THEN EmptyEntry ELSE st.entry
             IN  [out |-> IF commit THEN Append(st.out, st.entry) ELSE st.out,
                  entry |-> [base EXCEPT !.title = PyStr(text)],
                  collecting |-> FALSE]
        ELSE IF br = "company"
        THEN [st EXCEPT !.entry.company = PyStr(text), !.collecting = FALSE]
        ELSE IF br = "dates"
        THEN [st EXCEPT !.entry.dates = PyStr(text), !.collecting = TRUE]
        ELSE IF br = "responsibility"
        THEN [st EXCEPT !.entry.responsibilities = Append(@, text)]
        ELSE st

\* the position in sections.items() of the first section whose title the
\* pattern finds, 0 when there is none
FirstWorkSection(secs) ==
    LET hits == {k \in 1..Len(secs) :
                    KeywordSearch(work_experience_titles, secs[k].title)}
    IN  IF hits = {} THEN 0 ELSE SetMin(hits)

WorkInputsIdle ==
    /\ workStream = <<>>
    /\ workSections = <<>>
    /\ workPc = "idle"
    /\ workContent = <<>>
    /\ workIdx = 0
    /\ current_entry = EmptyEntry
    /\ collecting_responsibilities = FALSE
    /\ work_experience = <<>>

\* the loop over sections.items() up to the first matching title
WorkFindSection ==
    /\ workPc = "start"
    /\ LET k == FirstWorkSection(workSections)
       IN  IF k = 0
           THEN /\ workPc' = "done"
                /\ UNCHANGED <<workContent, workIdx>>
           ELSE /\ workContent' = workSections[k].content
                /\ workIdx' = 2
                /\ workPc' = "loop"
    /\ current_entry' = EmptyEntry
    /\ collecting_responsibilities' = FALSE
    /\ UNCHANGED <<workStream, workSections, work_experience>>
    /\ UNCHANGED workOthers

\* one span of content[1:]
WorkSpan ==
    /\ workPc = "loop"
    /\ workIdx <= Len(workContent)
    /\ LET nx == WorkStep([out |-> work_experience, entry |-> current_entry,
                           collecting |-> collecting_responsibilities],
                          workContent[workIdx])
       IN  /\ work_experience' = nx.out
           /\ current_entry' = nx.entry
           /\ collecting_responsibilities' = nx.collecting
    /\ workIdx' = workIdx + 1
    /\ UNCHANGED <<workStream, workSections, workPc, workContent>>
    /\ UNCHANGED workOthers

\* after the loop: append the last entry when it has a title, break, return
WorkReturn ==
    /\ workPc = "loop"
    /\ workIdx > Len(workContent)
    /\ work_experience' = IF Truthy(current_entry.title)
                          THEN Append(work_experience, current_entry)
                          ELSE work_experience
    /\ workPc' = "done"
    /\ UNCHANGED <<workStream, workSections, workContent, workIdx,
                   current_entry, collecting_responsibilities>>
    /\ UNCHANGED workOthers

\* extract_work_experience as a function of the sections
RECURSIVE WorkScan(_, _, _)
WorkScan(content, k, st) ==
    IF k > Len(content)
    THEN IF Truthy(st.entry.title) THEN Append(st.out, st.entry) ELSE st.out
    ELSE WorkScan(content, k + 1, WorkStep(st, content[k]))

ExtractWorkExperience(secs) ==
    LET k == FirstWorkSection(secs)
    IN  IF k = 0 THEN <<>>
        ELSE WorkScan(secs[k].content, 2,
                      [out |-> <<>>, entry |-> EmptyEntry, collecting |-> FALSE])

\* the span streams: a work-experience heading, then up to MaxWorkSpans spans
MaxWorkSpans == 4

WorkHeading == Span(<<"W","O","R","K"," ","E","X","P","E","R","I","E","N","C","E">>, 14, <<"A","r","i","a","l","-","B","o","l","d">>)

WorkSpanSet ==
    { WorkHeading,
      Span(<<"E","M","P","L","O","Y","M","E","N","T"," ","H","I","S","T","O","R","Y">>, 14, <<"A","r","i","a","l","-","B","o","l","d">>),
      Span(<<"E","n","g","i","n","e","e","r">>, 11, <<"A","r","i","a","l","-","B","o","l","d">>),
      Span(<<"D","e","v","e","l","o","p","e","r">>, 10, <<"H","e","l","v","e","t","i","c","a","-","B","o","l","d","O","b","l","i","q","u","e">>),
      Span(<<" ">>, 12, <<"A","r","i","a","l","-","B","o","l","d">>),
      Span(<<"L","e","a","d">>, 9, <<"A","r","i","a","l","-","B","o","l","d">>),
      Span(<<"A","c","m","e"," ","C","o","r","p">>, 10, <<"A","r","i","a","l">>),
      Span(<<"0","1","/","2","0","2","0"," ","-"," ","P","r","e","s","e","n","t">>, 9, <<"A","r","i","a","l">>),
      Span(<<"B","u","i","l","t"," ","t","h","e"," ","d","a","t","a"," ","p","i","p","e","l","i","n","e">>, 9, <<"A","r","i","a","l">>) }

WorkStreams == {<<WorkHeading>> \o s : s \in SeqsUpTo(WorkSpanSet, MaxWorkSpans)}

(* ------------------------------------------------------------------ *)
(* parse_resume (src/main.py)                                          *)
(* ------------------------------------------------------------------ *)

\* extract_accounts_from_resume as a function of the text
RECURSIVE AccFold(_, _, _)
AccFold(ms, k, acc) ==
    IF k > Len(ms) THEN acc
    ELSE AccFold(ms, k + 1, AccEmailBranch(AccUrlBranch(acc, ms[k]), ms[k]))

ExtractAccounts(text) == AccFold(FindAll(text, 1), 1, <<>>)

\* the keys of resume_data, in the order parse_resume sets them
Fields ==
    <<"Name", "Summary", "Accounts", "Skills", "Education", "Certifications",
      "Projects", "Work Experience">>

\* the position after field f: the next extractor, or the return
AfterField(f) ==
    LET k == CHOOSE i \in 1..Len(Fields) : Fields[i] = f
    IN  IF k = Len(Fields) THEN "return" ELSE Fields[k + 1]

\* what the extractor of field f returns for the text and the sections
FieldResult(f, text, secs) ==
    CASE f = "Name"            -> ExtractName(text)
      [] f = "Summary"         -> PyStr(ExtractSummary(text))
      [] f = "Accounts"        -> PyDict(ExtractAccounts(text))
      [] f = "Skills"          -> PyList(ExtractSkills(secs))
      [] f = "Education"       -> PyList(ExtractEducation(secs))
      [] f = "Certifications"  -> PyList(ExtractCertifications(secs))
      [] f = "Projects"        -> PyList(ExtractProjects(secs))
      [] f = "Work Experience" -> PyList(ExtractWorkExperience(secs))

\* the sentinel
NotFound == PyStr(<<"N","o","t"," ","f","o","u","n","d">>)

\* x if x is not None else "Not found": only None replaced
OrNotFoundNoneOnly(v) == IF v.kind # "None" THEN v ELSE NotFound

\* x if x else "Not found"
OrNotFound(v) == IF Truthy(v) THEN v ELSE NotFound

ParseInputsIdle ==
    /\ pText = <<>>
    /\ pSpans = <<>>
    /\ pSections = <<>>
    /\ pPc = "idle"
    /\ pLocals = <<>>
    /\ resume_data = <<>>
    /\ pRaised = "none"

\* text = extract_text_from_pdf(pdf_path);
\* sections = extract_sections_with_font_info(pdf_path); resume_data = {}
ParseLoad ==
    /\ pPc = "start"
    /\ pSections' = ExtractSections(pSpans)
    /\ pPc' = Fields[1]
    /\ UNCHANGED <<pText, pSpans, pLocals, resume_data, pRaised>>
    /\ UNCHANGED parseOthers

\* x = extract_x(...); resume_data[f] = x if x else "Not found".  The call
\* stands in no try block: an exception raised in the extractor leaves
\* parse_resume at once.
ParseField(f) ==
    /\ pPc = f
    /\ \/ /\ pRaised' = f
          /\ pPc' = "raised"
          /\ UNCHANGED <<pLocals, resume_data>>
       \/ /\ LET x == FieldResult(f, pText, pSections)
             IN  /\ pLocals' = Append(pLocals, x)
                 /\ resume_data' = Append(resume_data,
                                          [key |-> f, value |-> OrNotFound(x)])
          /\ pPc' = AfterField(f)
          /\ UNCHANGED pRaised
    /\ UNCHANGED <<pText, pSpans, pSections>>
    /\ UNCHANGED parseOthers

ParseName == ParseField("Name")

ParseSummary == ParseField("Summary")

ParseAccounts == ParseField("Accounts")

ParseSkills == ParseField("Skills")

ParseEducation == ParseField("Education")

ParseCertifications == ParseField("Certifications")

ParseProjects == ParseField("Projects")

ParseWorkExperience == ParseField("Work Experience")

\* return resume_data
ParseReturn ==
    /\ pPc = "return"
    /\ pPc' = "done"
    /\ UNCHANGED <<pText, pSpans, pSections, pLocals, resume_data, pRaised>>
    /\ UNCHANGED parseOthers

\* the documents: what the two extraction libraries return for one
MaxParseSpans == 3

ParseTexts ==
    { <<>>,
      <<"J","o","h","n"," ","D","o","e","\n","N","o","t"," ","f","o","u","n","d">>,
      <<"J","O","H","N"," ","D","O","E","\n","2","0","1","9">>,
      <<"J","a","n","e"," ","R","o","e","\n","S","u","m","m","a","r","y","\n","E","x","p","e","r","i","e","n","c","e","d"," ","e","n","g","i","n","e","e","r",".","\n","j","a","n","e","@","e","x","a","m","p","l","e",".","c","o","m">> }

ParseSpanSet ==
    { Span(<<"S","K","I","L","L","S">>, 12, <<"A","r","i","a","l","-","B","o","l","d">>),
      Span(<<"P","y","t","h","o","n">>, 9, <<"A","r","i","a","l">>),
      Span(<<"W","O","R","K"," ","E","X","P","E","R","I","E","N","C","E">>, 12, <<"A","r","i","a","l","-","B","o","l","d">>),
      Span(<<"E","n","g","i","n","e","e","r">>, 11, <<"A","r","i","a","l","-","B","o","l","d">>) }

ParseStreams == SeqsUpTo(ParseSpanSet, MaxParseSpans)

(* ------------------------------------------------------------------ *)
(* Properties                                                          *)
(* ------------------------------------------------------------------ *)

\* the i-th smallest element of a finite set of integers
NthOf(S, i) == CHOOSE x \in S : Cardinality({y \in S : y < x}) = i - 1

\* the whole text that a match of the sweep covers (group 0 of the match)
MatchLiteral(m) == SubSeq(accText, m.start, m.end - 1)

\* the grouping key of a match: the domain label of a URL, the token before
\* the first dot of the part after "@" of an email
GroupingKey(m) ==
    IF m.g5 # <<>>
    THEN LET at   == SetMin({k \in 1..Len(m.g5) : m.g5[k] = "@"})
             rest == SubSeq(m.g5, at + 1, Len(m.g5))
         IN  SubSeq(rest, 1, RunNot(rest, 1, {"."}))
    ELSE m.g3

\* C1: when extract_accounts_from_resume has returned, every match of the
\* sweep has its full matched literal (scheme, "www.", domain label, TLD and
\* path as they stand in the text) among the strings stored under the
\* match's grouping key.
C1_FullLiteralStored ==
    accPc = "done" =>
        \A k \in 1..Len(matches) :
            \E e \in 1..Len(accounts) :
                /\ accounts[e].key = GroupingKey(matches[k])
                /\ \E v \in 1..Len(accounts[e].vals) :
                       accounts[e].vals[v] = MatchLiteral(matches[k])

\* the position of the first name-shaped line (letters and spaces only) of
\* ls, 0 when there is none
FirstNameShaped(ls) ==
    LET at == {k \in 1..Len(ls) : SummaryNamePattern(ls[k])}
    IN  IF at = {} THEN 0 ELSE SetMin(at)

\* C2: Trigger B is a single-line capture: in a text with no summary heading
\* up to and including the line after the first name-shaped line, the
\* summary returned is exactly that following line, stripped, whatever
\* comes after it.
C2_TriggerBSingleLine ==
    sumPc = "done" =>
        LET ls == SplitLines(sumText)
            n  == FirstNameShaped(ls)
        IN  (/\ n > 0
             /\ n < Len(ls)
             /\ \A k \in 1..(n + 1) : ~SummaryTitlePattern(ls[k]))
            => sumResult = Strip(ls[n + 1])

\* a token of a name as extract_name takes it: a capital, then letters of
\* either case
CapitalizedToken(t) ==
    /\ t # <<>>
    /\ t[1] \in Upper
    /\ \A c \in 1..Len(t) : t[c] \in Letter

\* a capitalized token that is not all upper-case
MixedCaseToken(t) ==
    /\ CapitalizedToken(t)
    /\ \E c \in 1..Len(t) : t[c] \in Lower

\* the first line of the text that, stripped, is exactly two tokens, both
\* capitalized (both mixed-case when mixed is TRUE), or None
FirstTwoTokenLine(text, mixed) ==
    LET ls     == SplitLines(text)
        Tok(t) == IF mixed THEN MixedCaseToken(t) ELSE CapitalizedToken(t)
        hits   == {k \in 1..Len(ls) :
                      LET w == SplitWords(ls[k])
                      IN  Len(w) = 2 /\ Tok(w[1]) /\ Tok(w[2])}
    IN  IF hits = {} THEN PyNone ELSE PyStr(Strip(ls[SetMin(hits)]))

\* C3 (as amended): extract_name returns the first line that, stripped of
\* surrounding whitespace, is exactly two whitespace-separated tokens, each
\* a capital followed by letters of either case (so "JOHN DOE" is returned),
\* and None when no line is.
C3_FirstTwoCapitalizedTokens ==
    namePc = "done" => nameResult = FirstTwoTokenLine(nameText, FALSE)

\* C3, witness: an all-upper-case two-token line has been returned
C3_Witness ==
    /\ namePc = "done"
    /\ nameResult.kind = "str"
    /\ \A c \in 1..Len(nameResult.val) : nameResult.val[c] \in Upper \cup Space

\* C3 (as stated): the tokens must be mixed-case, so that a text whose only
\* two-token line is all upper-case yields None.
C3_AllUppercaseAbsent ==
    namePc = "done" => nameResult = FirstTwoTokenLine(nameText, TRUE)

\* the spans after the heading of the first matching section that are bold
\* with a font size of at least 10, as positions in its content
QualifyingBold(content) ==
    {k \in 2..Len(content) :
        /\ Contains(content[k].font_name, <<"B", "o", "l", "d">>)
        /\ content[k].font_size >= 10}

\* C4: extract_work_experience returns exactly one entry per qualifying bold
\* span of the first matching section, in span order, its title that span's
\* text; and of two qualifying bold spans that follow one another directly,
\* the first yields an entry with only a title set.
C4_OneEntryPerBoldSpan ==
    workPc = "done" =>
        LET s == FirstWorkSection(workSections)
        IN  IF s = 0 THEN work_experience = <<>>
            ELSE LET c == workSections[s].content
                     q == QualifyingBold(c)
                 IN  /\ Len(work_experience) = Cardinality(q)
                     /\ \A i \in 1..Cardinality(q) :
                          /\ work_experience[i].title = PyStr(c[NthOf(q, i)].text)
                          /\ (NthOf(q, i) + 1) \in q =>
                                /\ work_experience[i].company = PyNone
                                /\ work_experience[i].dates = PyNone
                                /\ work_experience[i].responsibilities = <<>>

\* C5: no key of the accounts index is the empty string.
C5_KeysNonEmpty ==
    \A e \in 1..Len(accounts) : accounts[e].key # <<>>

\* C6: an extractor that raises does not abort the assembly of the record.
C6_FaultDoesNotAbort ==
    pRaised # "none" => pPc # "raised"

\* C7: in one pass over the lines at most one of the two triggers fires:
\* the heading branch (Trigger A) and the line-after-the-name branch
\* (Trigger B) are never both taken.
C7_OneTriggerPerPass ==
    ~ \E i, j \in 1..Len(sumTrace) :
          sumTrace[i] = "tagline" /\ sumTrace[j] = "heading"

\* the texts of the spans after the first of content whose font is strictly
\* smaller than that of the first, in order
BodyTextsBelowHeading(content) ==
    LET idx == {j \in 2..Len(content) :
                   content[j].font_size < content[1].font_size}
    IN  [i \in 1..Cardinality(idx) |-> content[NthOf(idx, i)].text]

\* what the sections whose title contains one of the keywords contribute,
\* section after section
RECURSIVE ExpectedKeywordOutput(_, _, _)
ExpectedKeywordOutput(secs, keywords, k) ==
    IF k > Len(secs) THEN <<>>
    ELSE (IF \E w \in 1..Len(keywords) :
                 Contains(LowerStr(secs[k].title), LowerStr(keywords[w]))
          THEN BodyTextsBelowHeading(secs[k].content)
          ELSE <<>>)
         \o ExpectedKeywordOutput(secs, keywords, k + 1)

\* the output of a keyword extractor holds no heading of a section, and
\* holds exactly the smaller-font body texts of the matching sections
KeywordOutputOk(out, keywords) ==
    /\ \A k \in 1..Len(sections), i \in 1..Len(out) :
           out[i] # sections[k].content[1].text
    /\ out = ExpectedKeywordOutput(sections, keywords, 1)

\* C8: every section of the mapping has a non-empty content whose first
\* element is the heading span (its text the section's label), and the
\* output of each keyword extractor leaves the heading spans out and holds
\* exactly the texts of the content spans with a font strictly smaller than
\* content[0]'s, in order.
C8_HeadingFirstAndFilteredOut ==
    /\ \A k \in 1..Len(sections) :
           /\ Len(sections[k].content) >= 1
           /\ sections[k].content[1].text = sections[k].title
           /\ UppercaseTitlePattern(sections[k].content[1].text)
           /\ \A j \in 2..Len(sections[k].content) :
                  ~UppercaseTitlePattern(sections[k].content[j].text)
    /\ kwPc \in {"education", "certifications", "projects", "done"} =>
           KeywordOutputOk(skills, skill_section_keywords)
    /\ kwPc \in {"certifications", "projects", "done"} =>
           KeywordOutputOk(education_list, education_keywords)
    /\ kwPc \in {"projects", "done"} =>
           KeywordOutputOk(certifications, certification_section_titles)
    /\ kwPc = "done" =>
           KeywordOutputOk(projects, project_section_titles)

\* C8, witness: the extractors have run on a skills section that has body
\* spans both below the heading's font size and not below it
C8_Witness ==
    /\ kwPc = "done"
    /\ skills # <<>>
    /\ \E k \in 1..Len(sections) :
           LET c == sections[k].content
           IN  /\ KeywordSearch(skill_section_keywords, sections[k].title)
               /\ \E i, j \in 2..Len(c) :
                      /\ c[i].font_size < c[1].font_size
                      /\ c[j].font_size >= c[1].font_size

\* a record holds no value: None, "", [] or {}
IsEmptyResult(v) == v.kind = "None" \/ v.val = <<>>

\* v is the string "Not found"
IsSentinel(v) ==
    v.kind = "str" /\ v.val = <<"N", "o", "t", " ", "f", "o", "u", "n", "d">>

EightKeys ==
    <<"Name", "Summary", "Accounts", "Skills", "Education", "Certifications",
      "Projects", "Work Experience">>

HeadingPositions(ss) ==
    {k \in 1..Len(ss) : UppercaseTitlePattern(Strip(ss[k].text))}

\* the section that the heading at position k of ss opens, hp being the
\* heading positions: the heading span, then the spans up to the next
\* heading or the end, texts stripped
SectionAt(ss, hp, k) ==
    LET later == {j \in hp : j > k}
        stop  == IF later = {} THEN Len(ss) + 1 ELSE SetMin(later)
    IN  [i \in 1..(stop - k) |->
            [text |-> Strip(ss[k + i - 1].text),
             font_size |-> ss[k + i - 1].font_size,
             font_name |-> ss[k + i - 1].font_name]]

\* C10: when the segmenter has returned, each heading label of the stream
\* has one entry in the mapping, and its content is that of the last
\* section with that label: nothing of an earlier section of the label is
\* kept.
C10_LastSectionWins ==
    segPc = "done" =>
        LET hp    == HeadingPositions(spans)
            label == [k \in hp |-> Strip(spans[k].text)]
        IN  /\ Len(sections) = Cardinality({label[k] : k \in hp})
            /\ \A k \in hp :
                  LET last == SetMax({j \in hp : label[j] = label[k]})
                  IN  \E e \in 1..Len(sections) :
                          /\ sections[e].title = label[k]
                          /\ sections[e].content = SectionAt(spans, hp, last)

\* C10, witness: the stream holds a label twice, and the earlier of the two
\* sections has a body
C10_Witness ==
    /\ segPc = "done"
    /\ LET hp == HeadingPositions(spans)
       IN  \E a, b \in hp :
               /\ a < b
               /\ Strip(spans[a].text) = Strip(spans[b].text)
               /\ (a + 1) \notin hp


\* the position where the part of content that belongs to the title span at
\* position t ends: the next qualifying bold span, or the end of content
NextTitleAfter(content, t) ==
    LET later == {j \in QualifyingBold(content) : j > t}
    IN  IF later = {} THEN Len(content) + 1 ELSE SetMin(later)

\* the value v of a field is None, or the stripped text of a span of
\* content strictly between the positions lo and hi
FromSpansBetween(v, content, lo, hi) ==
    \/ v.kind = "None"
    \/ \E j \in (lo + 1)..(hi - 1) : v.val = Strip(content[j].text)

\* C11: in every entry that extract_work_experience returns, the company,
\* the dates and each responsibility are texts of spans that come after the
\* entry's own title span and before the next qualifying title span; what a
\* span before the first title span held is in no returned entry.
C11_FieldsFromSpansAfterTitle ==
    workPc = "done" =>
        LET s == FirstWorkSection(workSections)
        IN  s # 0 =>
            LET c == workSections[s].content
            IN  \A i \in 1..Len(work_experience) :
                  \E t \in QualifyingBold(c) :
                      LET e  == work_experience[i]
                          hi == NextTitleAfter(c, t)
                      IN  /\ e.title.kind = "str"
                          /\ e.title.val = Strip(c[t].text)
                          /\ FromSpansBetween(e.company, c, t, hi)
                          /\ FromSpansBetween(e.dates, c, t, hi)
                          /\ \A r \in 1..Len(e.responsibilities) :
                                \E j \in (t + 1)..(hi - 1) :
                                    e.responsibilities[r] = Strip(c[j].text)
(* ------------------------------------------------------------------ *)
(* Specifications: one per function, each over its own inputs          *)
(* ------------------------------------------------------------------ *)

InitAccounts ==
    /\ accText \in AccTexts
    /\ accPc = "start"
    /\ matches = <<>>
    /\ accIdx = 0
    /\ accounts = <<>>
    /\ NameInputsIdle /\ SumInputsIdle /\ SegInputsIdle /\ KwInputsIdle
    /\ WorkInputsIdle /\ ParseInputsIdle

NextAccounts ==
    \/ AccFindAll
    \/ AccProcessMatch
    \/ AccReturn

SpecAccounts == InitAccounts /\ [][NextAccounts]_vars

InitName ==
    /\ nameText \in NameTexts
    /\ namePc = "start"
    /\ nameLines = <<>>
    /\ nameIdx = 0
    /\ nameResult = PyNone
    /\ AccInputsIdle /\ SumInputsIdle /\ SegInputsIdle /\ KwInputsIdle
    /\ WorkInputsIdle /\ ParseInputsIdle

NextName ==
    \/ NameSplit
    \/ NameScanLine
    \/ NameReturnNone

SpecName == InitName /\ [][NextName]_vars

InitSummary ==
    /\ sumText \in SumTexts
    /\ sumPc = "start"
    /\ sumLines = <<>>
    /\ sumIdx = 0
    /\ summary_text = <<>>
    /\ name_found = FALSE
    /\ is_capturing = FALSE
    /\ sumTrace = <<>>
    /\ sumResult = <<>>
    /\ AccInputsIdle /\ NameInputsIdle /\ SegInputsIdle /\ KwInputsIdle
    /\ WorkInputsIdle /\ ParseInputsIdle

NextSummary ==
    \/ SumSplit
    \/ SumLine
    \/ SumLoopEnd
    \/ SumReturn

SpecSummary == InitSummary /\ [][NextSummary]_vars

InitSections ==
    /\ spans \in SegStreams
    /\ segPc = "loop"
    /\ segIdx = 1
    /\ sections = <<>>
    /\ current_title = PyNone
    /\ current_content = <<>>
    /\ kwPc = "skills"
    /\ skills = <<>>
    /\ education_list = <<>>
    /\ certifications = <<>>
    /\ projects = <<>>
    /\ AccInputsIdle /\ NameInputsIdle /\ SumInputsIdle
    /\ WorkInputsIdle /\ ParseInputsIdle

NextSections ==
    \/ SegSpan
    \/ SegReturn
    \/ KwSkills
    \/ KwEducation
    \/ KwCertifications
    \/ KwProjects

SpecSections == InitSections /\ [][NextSections]_vars

InitWork ==
    /\ workStream \in WorkStreams
    /\ workSections = ExtractSections(workStream)
    /\ workPc = "start"
    /\ workContent = <<>>
    /\ workIdx = 0
    /\ current_entry = EmptyEntry
    /\ collecting_responsibilities = FALSE
    /\ work_experience = <<>>
    /\ AccInputsIdle /\ NameInputsIdle /\ SumInputsIdle /\ SegInputsIdle
    /\ KwInputsIdle /\ ParseInputsIdle

NextWork ==
    \/ WorkFindSection
    \/ WorkSpan
    \/ WorkReturn

SpecWork == InitWork /\ [][NextWork]_vars

InitParse ==
    /\ pText \in ParseTexts
    /\ pSpans \in ParseStreams
    /\ pSections = <<>>
    /\ pPc = "start"
    /\ pLocals = <<>>
    /\ resume_data = <<>>
    /\ pRaised = "none"
    /\ AccInputsIdle /\ NameInputsIdle /\ SumInputsIdle /\ SegInputsIdle
    /\ KwInputsIdle /\ WorkInputsIdle

NextParse ==
    \/ ParseLoad
    \/ ParseName
    \/ ParseSummary
    \/ ParseAccounts
    \/ ParseSkills
    \/ ParseEducation
    \/ ParseCertifications
    \/ ParseProjects
    \/ ParseWorkExperience
    \/ ParseReturn

SpecParse == InitParse /\ [][NextParse]_vars

====
